---------------------------- MODULE Spec2Model ----------------------------
(***************************************************************************)
(* Model of solana-streamer's gRPC subscription manager                    *)
(* (src/streaming/grpc/subscription.rs): the filter-to-request compiler    *)
(* (get_subscribe_request_filter, subscribe_with_account_request, the      *)
(* request built by subscribe_with_request), the connect / send steps of   *)
(* subscribe_with_request, and the streaming session with its shared       *)
(* cancellation flag as the example program drives it                      *)
(* (examples/grpc_example.rs).                                             *)
(***************************************************************************)
EXTENDS Integers, Sequences, FiniteSets, TLC

(***************************************************************************)
(* Bounds of the model.                                                    *)
(***************************************************************************)
MaxAccountFilters == 3
MaxTransactionFilters == 3
MaxCalls == 2
MaxUpdates == 3
MaxClones == 2
MaxStops == 2

(***************************************************************************)
(* Option<T>: None is the empty sequence, Some(v) the one-element one.     *)
(***************************************************************************)
None == << >>
Some(v) == << v >>
is_some(o) == o # None
is_none(o) == o = None
unwrap(o) == o[1]

(***************************************************************************)
(* HashMap<String, V>: a function whose domain is the set of keys.         *)
(***************************************************************************)
EmptyMap == [k \in {} |-> None]
HashMapInsert(m, k, v) == [x \in (DOMAIN m) \cup {k} |-> IF x = k THEN v ELSE m[x]]
unwrap_or_default(o) == IF is_some(o) THEN unwrap(o) ELSE EmptyMap
MapLen(m) == Cardinality(DOMAIN m)

(***************************************************************************)
(* The input domains.  Identifier vectors are sequences of strings; the    *)
(* second transaction filter has conflicting include / exclude sets.       *)
(***************************************************************************)
AccountFilterPool ==
    { [account |-> << >>, owner |-> <<"PGM1">>, filters |-> << >>],
      [account |-> <<"ACC1", "ACC2">>, owner |-> << >>, filters |-> <<"memcmp">>] }
TransactionFilterPool ==
    { [account_include |-> <<"PGM1">>, account_exclude |-> << >>, account_required |-> << >>],
      [account_include |-> <<"PGM1">>, account_exclude |-> <<"PGM1">>,
       account_required |-> <<"PGM2">>] }
SeqsUpTo(S, n) == UNION { [1..k -> S] : k \in 0..n }
AccountFilterSeqs == SeqsUpTo(AccountFilterPool, MaxAccountFilters)
TransactionFilterSeqs == SeqsUpTo(TransactionFilterPool, MaxTransactionFilters)
EventCategories == {"account", "transaction", "block"}
EventTypeFilters == [include : SUBSET EventCategories]
OptEventTypeFilters == {None} \cup { Some(f) : f \in EventTypeFilters }
CommitmentLevels == {"Processed", "Confirmed", "Finalized"}
OptCommitments == {None} \cup { Some(c) : c \in CommitmentLevels }

(***************************************************************************)
(* EventTypeFilter's category predicates.                                  *)
(***************************************************************************)
include_block_event(f) == "block" \in f.include
include_account_event(f) == "account" \in f.include
include_transaction_event(f) == "transaction" \in f.include

VARIABLES
    pc,                 \* position of the subscribe call / session
    transaction_filter, \* caller's Vec<TransactionFilter>
    account_filter,     \* caller's Vec<AccountFilter>
    event_type_filter,  \* caller's Option<EventTypeFilter>
    commitment,         \* caller's Option<CommitmentLevel>
    transactions,       \* Option<TransactionsFilterMap> handed to subscribe_with_request
    accounts,           \* Option<AccountsFilterMap> handed to subscribe_with_request
    subscribe_request,  \* Option<SubscribeRequest> built by subscribe_with_request
    prev_request,       \* the request the previous call built from the same inputs
    calls,              \* number of subscribe calls made so far
    connects,           \* connect() invocations of the current call
    channel,            \* id of the channel the current call opened (0: none)
    opened,             \* channels opened so far, by all calls
    used,               \* ids of the channels earlier calls opened
    sent,               \* requests sent by the current call
    result,             \* what the current call returned
    cells,              \* the cancellation flag cells
    handle,             \* handle[h]: the cell session handle h refers to
    stop_calls,         \* the handles stop() was called on, in order
    loop,               \* position of the read loop
    received,           \* RawUpdates received from the stream
    inflight,           \* the update being dispatched
    delivered,          \* updates handed to the handler, in order
    after_stop,         \* deliveries completed after the flag was set
    observed_at,        \* value of received when the loop observed the flag
    errors_reported     \* transport errors reported by the loop

callvars == << transaction_filter, account_filter, event_type_filter, commitment,
               transactions, accounts, subscribe_request, prev_request, calls,
               connects, channel, opened, used, sent, result >>
sessionvars == << cells, handle, stop_calls, loop, received, inflight, delivered,
                  after_stop, observed_at, errors_reported >>
vars == << pc, callvars, sessionvars >>

(***************************************************************************)
(* format!("{}", index): the decimal digits of a usize.                    *)
(***************************************************************************)
Digit(d) ==
    CASE d = 0 -> "0" [] d = 1 -> "1" [] d = 2 -> "2" [] d = 3 -> "3" [] d = 4 -> "4"
      [] d = 5 -> "5" [] d = 6 -> "6" [] d = 7 -> "7" [] d = 8 -> "8" [] d = 9 -> "9"
RECURSIVE ToDecimal(_)
ToDecimal(n) == IF n < 10 THEN Digit(n) ELSE ToDecimal(n \div 10) \o Digit(n % 10)

(***************************************************************************)
(* subscribe_with_account_request                                          *)
(***************************************************************************)
AccountLabelOneBased(index) == "account_" \o ToDecimal(index + 1)
AccountLabel(index) == "account_" \o ToDecimal(index)
AccountEntry(af) ==
    [account |-> af.account, owner |-> af.owner, filters |-> af.filters,
     nonempty_txn_signature |-> None]
RECURSIVE InsertAccounts(_, _)
InsertAccounts(af, n) ==
    IF n = 0 THEN EmptyMap
    ELSE HashMapInsert(InsertAccounts(af, n - 1), AccountLabel(n - 1), AccountEntry(af[n]))
subscribe_with_account_request_unchecked(af, etf) ==
    IF Len(af) = 0 THEN None ELSE Some(InsertAccounts(af, Len(af)))
subscribe_with_account_request(af, etf) ==
    IF is_some(etf) /\ ~include_account_event(unwrap(etf)) THEN None
    ELSE IF Len(af) = 0 THEN None
    ELSE Some(InsertAccounts(af, Len(af)))

(***************************************************************************)
(* get_subscribe_request_filter                                            *)
(***************************************************************************)
TransactionLabelCounted(index) == "transaction_" \o ToDecimal(index + calls - 1)
TransactionLabel(index) == "transaction_" \o ToDecimal(index)
TransactionEntrySwapped(tf) ==
    [vote |-> Some(FALSE), failed |-> Some(FALSE), signature |-> None,
     account_include |-> tf.account_exclude, account_exclude |-> tf.account_include,
     account_required |-> tf.account_required]
TransactionEntry(tf) ==
    [vote |-> Some(FALSE), failed |-> Some(FALSE), signature |-> None,
     account_include |-> tf.account_include, account_exclude |-> tf.account_exclude,
     account_required |-> tf.account_required]
RECURSIVE InsertTransactions(_, _)
InsertTransactions(tf, n) ==
    IF n = 0 THEN EmptyMap
    ELSE HashMapInsert(InsertTransactions(tf, n - 1), TransactionLabel(n - 1),
                       TransactionEntry(tf[n]))
get_subscribe_request_filter_unchecked(tf, etf) == Some(InsertTransactions(tf, Len(tf)))
get_subscribe_request_filter(tf, etf) ==
    IF is_some(etf) /\ ~include_transaction_event(unwrap(etf)) THEN None
    ELSE Some(InsertTransactions(tf, Len(tf)))

(***************************************************************************)
(* subscribe_with_request: the compiled SubscribeRequest                   *)
(***************************************************************************)
DefaultBlocksMetaEntry == [unit |-> TRUE]
DefaultBlocksEntry ==
    [account_include |-> << >>, include_transactions |-> Some(TRUE),
     include_accounts |-> Some(FALSE), include_entries |-> Some(FALSE)]
blocks_meta_always(etf) == HashMapInsert(EmptyMap, "", DefaultBlocksMetaEntry)
blocks_meta(etf) ==
    IF is_some(etf) /\ include_block_event(unwrap(etf))
    THEN HashMapInsert(EmptyMap, "", DefaultBlocksMetaEntry)
    ELSE IF is_none(etf) THEN HashMapInsert(EmptyMap, "", DefaultBlocksMetaEntry)
    ELSE EmptyMap
blocks_empty_by_default(etf) ==
    IF is_some(etf) /\ include_block_event(unwrap(etf))
    THEN HashMapInsert(EmptyMap, "", DefaultBlocksEntry)
    ELSE EmptyMap
blocks(etf) ==
    IF is_some(etf) /\ include_block_event(unwrap(etf))
    THEN HashMapInsert(EmptyMap, "", DefaultBlocksEntry)
    ELSE IF is_none(etf) THEN HashMapInsert(EmptyMap, "", DefaultBlocksEntry)
    ELSE EmptyMap
CommitmentAsI32(c) ==
    CASE c = "Processed" -> 0 [] c = "Confirmed" -> 1 [] c = "Finalized" -> 2
commitment_field_ignored(c) == Some(CommitmentAsI32("Processed"))
commitment_field(c) ==
    IF is_some(c) THEN Some(CommitmentAsI32(unwrap(c)))
    ELSE Some(CommitmentAsI32("Processed"))
SubscribeRequest(txs, accts, c, etf) ==
    [accounts |-> unwrap_or_default(accts),
     slots |-> EmptyMap,
     transactions |-> unwrap_or_default(txs),
     transactions_status |-> EmptyMap,
     blocks |-> blocks(etf),
     blocks_meta |-> blocks_meta(etf),
     entry |-> EmptyMap,
     commitment |-> commitment_field(c),
     accounts_data_slice |-> << >>,
     ping |-> None,
     from_slot |-> None]

Init ==
    /\ pc = "idle"
    /\ transaction_filter = << >>
    /\ account_filter = << >>
    /\ event_type_filter = None
    /\ commitment = None
    /\ transactions = None
    /\ accounts = None
    /\ subscribe_request = None
    /\ prev_request = None
    /\ calls = 0
    /\ connects = 0
    /\ channel = 0
    /\ opened = 0
    /\ used = {}
    /\ sent = 0
    /\ result = "none"
    /\ cells = [c \in 1..(MaxClones + 1) |-> FALSE]
    /\ handle = << 1 >>
    /\ stop_calls = << >>
    /\ loop = "none"
    /\ received = 0
    /\ inflight = 0
    /\ delivered = << >>
    /\ after_stop = 0
    /\ observed_at = None
    /\ errors_reported = 0

(***************************************************************************)
(* The caller: starts a subscription with inputs of its choice, or, after  *)
(* a failed setup, subscribes again with the same inputs.                  *)
(***************************************************************************)
Subscribe ==
    /\ pc = "idle"
    /\ \E tf \in TransactionFilterSeqs, af \in AccountFilterSeqs,
          etf \in OptEventTypeFilters, c \in OptCommitments :
          /\ transaction_filter' = tf
          /\ account_filter' = af
          /\ event_type_filter' = etf
          /\ commitment' = c
    /\ calls' = calls + 1
    /\ pc' = "get_subscribe_request_filter"
    /\ UNCHANGED << transactions, accounts, subscribe_request, prev_request,
                    connects, channel, opened, used, sent, result, sessionvars >>

Resubscribe ==
    /\ pc = "failed"
    /\ calls < MaxCalls
    /\ calls' = calls + 1
    /\ prev_request' = subscribe_request
    /\ transactions' = None
    /\ accounts' = None
    /\ subscribe_request' = None
    /\ connects' = 0
    /\ used' = IF channel = 0 THEN used ELSE used \cup {channel}
    /\ channel' = 0
    /\ sent' = 0
    /\ result' = "none"
    /\ pc' = "get_subscribe_request_filter"
    /\ UNCHANGED << transaction_filter, account_filter, event_type_filter, commitment,
                    opened, sessionvars >>

GetSubscribeRequestFilter ==
    /\ pc = "get_subscribe_request_filter"
    /\ transactions' = get_subscribe_request_filter(transaction_filter, event_type_filter)
    /\ pc' = "subscribe_with_account_request"
    /\ UNCHANGED << transaction_filter, account_filter, event_type_filter, commitment,
                    accounts, subscribe_request, prev_request, calls, connects, channel,
                    opened, used, sent, result, sessionvars >>

SubscribeWithAccountRequest ==
    /\ pc = "subscribe_with_account_request"
    /\ accounts' = subscribe_with_account_request(account_filter, event_type_filter)
    /\ pc' = "subscribe_with_request"
    /\ UNCHANGED << transaction_filter, account_filter, event_type_filter, commitment,
                    transactions, subscribe_request, prev_request, calls, connects,
                    channel, opened, used, sent, result, sessionvars >>

(***************************************************************************)
(* subscribe_with_request: build the request, connect, send.               *)
(***************************************************************************)
BuildRequest ==
    /\ pc = "subscribe_with_request"
    /\ subscribe_request' =
           Some(SubscribeRequest(transactions, accounts, commitment, event_type_filter))
    /\ pc' = "connect"
    /\ UNCHANGED << transaction_filter, account_filter, event_type_filter, commitment,
                    transactions, accounts, prev_request, calls, connects, channel,
                    opened, used, sent, result, sessionvars >>

\* A faulty variant of ConnectErr: the error is swallowed and the call goes on to send.
ConnectErrSwallowed ==
    /\ pc = "connect"
    /\ connects' = connects + 1
    /\ pc' = "send"
    /\ UNCHANGED << transaction_filter, account_filter, event_type_filter, commitment,
                    transactions, accounts, subscribe_request, prev_request, calls,
                    channel, opened, used, sent, result, sessionvars >>

\* connect() fails: the builder rejects the endpoint, token or TLS configuration,
\* or builder.connect() fails (unreachable, TLS failure, timeout).
ConnectErr ==
    /\ pc = "connect"
    /\ connects' = connects + 1
    /\ result' = "connect_error"
    /\ pc' = "failed"
    /\ UNCHANGED << transaction_filter, account_filter, event_type_filter, commitment,
                    transactions, accounts, subscribe_request, prev_request, calls,
                    channel, opened, used, sent, sessionvars >>

ConnectOk ==
    /\ pc = "connect"
    /\ connects' = connects + 1
    /\ opened' = opened + 1
    /\ channel' = opened + 1
    /\ pc' = "send"
    /\ UNCHANGED << transaction_filter, account_filter, event_type_filter, commitment,
                    transactions, accounts, subscribe_request, prev_request, calls,
                    used, sent, result, sessionvars >>

SendErr ==
    /\ pc = "send"
    /\ sent' = sent + 1
    /\ result' = "send_error"
    /\ pc' = "failed"
    /\ UNCHANGED << transaction_filter, account_filter, event_type_filter, commitment,
                    transactions, accounts, subscribe_request, prev_request, calls,
                    connects, channel, opened, used, sessionvars >>

SendOk ==
    /\ pc = "send"
    /\ sent' = sent + 1
    /\ result' = "ok"
    /\ pc' = "subscribed"
    /\ UNCHANGED << transaction_filter, account_filter, event_type_filter, commitment,
                    transactions, accounts, subscribe_request, prev_request, calls,
                    connects, channel, opened, used, sessionvars >>

(***************************************************************************)
(* The session: the read loop over the returned stream, and the handles    *)
(* that share its cancellation flag.                                       *)
(***************************************************************************)
Cancelled == cells[handle[1]]

\* subscribe returns to the caller once the read loop is started; the call's
\* arguments and locals are dropped.
StartLoop ==
    /\ pc = "subscribed"
    /\ pc' = "streaming"
    /\ loop' = "top"
    /\ transaction_filter' = << >>
    /\ account_filter' = << >>
    /\ event_type_filter' = None
    /\ commitment' = None
    /\ transactions' = None
    /\ accounts' = None
    /\ subscribe_request' = None
    /\ prev_request' = None
    /\ UNCHANGED << calls, connects, channel, opened, used, sent, result, cells, handle,
                    stop_calls,
                    received, inflight, delivered, after_stop, observed_at,
                    errors_reported >>

CloneCellFresh(h) == Len(handle) + 1
CloneCell(h) == handle[h]
Clone(h) ==
    /\ pc = "streaming"
    /\ Len(handle) < MaxClones + 1
    /\ handle' = Append(handle, CloneCell(h))
    /\ UNCHANGED << pc, callvars, cells, stop_calls, loop, received, inflight, delivered,
                    after_stop, observed_at, errors_reported >>

Stop(h) ==
    /\ pc = "streaming"
    /\ Len(stop_calls) < MaxStops
    /\ cells' = [cells EXCEPT ![handle[h]] = TRUE]
    /\ stop_calls' = Append(stop_calls, h)
    /\ UNCHANGED << pc, callvars, handle, loop, received, inflight, delivered,
                    after_stop, observed_at, errors_reported >>

\* A faulty variant of LoopTop: the loop never looks at the flag.
LoopTopBlind ==
    /\ loop = "top"
    /\ loop' = "await"
    /\ UNCHANGED << pc, callvars, cells, handle, stop_calls, received, inflight, delivered,
                    after_stop, observed_at, errors_reported >>

\* The iteration boundary: the flag is observed here and nowhere else.
LoopTop ==
    /\ loop = "top"
    /\ IF Cancelled
       THEN /\ loop' = "stopped"
            /\ observed_at' = Some(received)
       ELSE /\ loop' = "await"
            /\ UNCHANGED observed_at
    /\ UNCHANGED << pc, callvars, cells, handle, stop_calls, received, inflight, delivered,
                    after_stop, errors_reported >>

\* The suspension point: the stream yields the next RawUpdate.
Receive ==
    /\ loop = "await"
    /\ received < MaxUpdates
    /\ received' = received + 1
    /\ inflight' = received + 1
    /\ loop' = "dispatch"
    /\ UNCHANGED << pc, callvars, cells, handle, stop_calls, delivered, after_stop,
                    observed_at, errors_reported >>

\* The stream yields a terminal error: reported once, the loop ends.
StreamError ==
    /\ loop = "await"
    /\ errors_reported' = errors_reported + 1
    /\ loop' = "stopped"
    /\ UNCHANGED << pc, callvars, cells, handle, stop_calls, received, inflight, delivered,
                    after_stop, observed_at >>

\* The stream ends (remote closed).
StreamEnd ==
    /\ loop = "await"
    /\ loop' = "stopped"
    /\ UNCHANGED << pc, callvars, cells, handle, stop_calls, received, inflight, delivered,
                    after_stop, observed_at, errors_reported >>

\* The handler is called inline with the update in flight; it is not interrupted.
Dispatch ==
    /\ loop = "dispatch"
    /\ delivered' = Append(delivered, inflight)
    /\ after_stop' = IF Cancelled THEN after_stop + 1 ELSE after_stop
    /\ inflight' = 0
    /\ loop' = "top"
    /\ UNCHANGED << pc, callvars, cells, handle, stop_calls, received, observed_at,
                    errors_reported >>

Next ==
    \/ Subscribe
    \/ Resubscribe
    \/ GetSubscribeRequestFilter
    \/ SubscribeWithAccountRequest
    \/ BuildRequest
    \/ ConnectErr
    \/ ConnectOk
    \/ SendErr
    \/ SendOk
    \/ StartLoop
    \/ \E h \in 1..Len(handle) : Clone(h)
    \/ \E h \in 1..Len(handle) : Stop(h)
    \/ LoopTop
    \/ Receive
    \/ StreamError
    \/ StreamEnd
    \/ Dispatch

Spec == Init /\ [][Next]_vars

(***************************************************************************)
(* Properties of the compiled request.                                     *)
(***************************************************************************)
TransactionsCompiled ==
    pc \in {"subscribe_with_account_request", "subscribe_with_request", "connect",
            "send", "subscribed", "failed"}
AccountsCompiled ==
    pc \in {"subscribe_with_request", "connect", "send", "subscribed", "failed"}
Built == is_some(subscribe_request)
Req == unwrap(subscribe_request)
FilterAbsent == event_type_filter = None
FilterPresent == event_type_filter # None
Includes(category) == category \in unwrap(event_type_filter).include
ExpectedAccountLabels ==
    << "account_0", "account_1", "account_2", "account_3", "account_4", "account_5",
       "account_6", "account_7", "account_8", "account_9", "account_10", "account_11" >>
ExpectedTransactionLabels ==
    << "transaction_0", "transaction_1", "transaction_2", "transaction_3",
       "transaction_4", "transaction_5", "transaction_6", "transaction_7",
       "transaction_8", "transaction_9", "transaction_10", "transaction_11" >>

\* C1: when an EventTypeFilter is present and does not include the block
\* category, the built request has an empty blocks map and an empty
\* blocks_meta map, whatever the transaction filters, account filters and
\* commitment are.
C1_BlocksEmptyWhenBlockExcluded ==
    (Built /\ FilterPresent /\ ~Includes("block")) =>
        /\ DOMAIN Req.blocks = {}
        /\ DOMAIN Req.blocks_meta = {}
C1_Witness ==
    /\ Built
    /\ FilterPresent
    /\ ~Includes("block")
    /\ Includes("transaction")
    /\ Includes("account")
    /\ Len(transaction_filter) > 0
    /\ Len(account_filter) > 0
    /\ is_some(commitment)

C3_AccountEntries ==
    (AccountsCompiled /\ Len(account_filter) > 0 /\ (FilterAbsent \/ Includes("account"))) =>
        /\ is_some(accounts)
        /\ MapLen(unwrap(accounts)) = Len(account_filter)
        /\ DOMAIN unwrap(accounts) =
               { ExpectedAccountLabels[i] : i \in 1..Len(account_filter) }
        /\ \A i \in 1..Len(account_filter) :
               LET e == unwrap(accounts)[ExpectedAccountLabels[i]]
               IN  /\ e.account = account_filter[i].account
                   /\ e.owner = account_filter[i].owner
                   /\ e.filters = account_filter[i].filters
                   /\ e.nonempty_txn_signature = None
C3_Witness ==
    /\ AccountsCompiled
    /\ Len(account_filter) >= 2
    /\ account_filter[1] # account_filter[2]
    /\ FilterPresent
    /\ Includes("account")
    /\ MapLen(unwrap(accounts)) = Len(account_filter)

\* C4: when an EventTypeFilter is present and excludes account events, or the
\* account-filter sequence is empty, subscribe_with_account_request yields no
\* section and the accounts map of the built request is empty.
C4_AccountsEmptyWhenDisabled ==
    ((FilterPresent /\ ~Includes("account")) \/ Len(account_filter) = 0) =>
        /\ AccountsCompiled => accounts = None
        /\ Built => DOMAIN Req.accounts = {}
C4_Witness ==
    /\ Built
    /\ FilterPresent
    /\ ~Includes("account")
    /\ Len(account_filter) > 0
    /\ DOMAIN Req.accounts = {}
    /\ DOMAIN Req.transactions # {}

\* C5: when an EventTypeFilter is present and excludes transaction events, the
\* transactions map of the built request is empty, however many transaction
\* filters are supplied and whatever the other inputs are.
C5_TransactionsEmptyWhenExcluded ==
    (Built /\ FilterPresent /\ ~Includes("transaction")) =>
        DOMAIN Req.transactions = {}
C5_Witness ==
    /\ Built
    /\ FilterPresent
    /\ ~Includes("transaction")
    /\ Len(transaction_filter) >= 2
    /\ DOMAIN Req.transactions = {}
    /\ DOMAIN Req.accounts # {}

\* C6: when the EventTypeFilter is absent or allows transaction events,
\* get_subscribe_request_filter yields one entry per input filter, labelled
\* transaction_<i> by position, each with vote = false, failed = false, no
\* signature, and the include / exclude / required vectors of the i-th input
\* unchanged, conflicting or not.
C6_TransactionEntries ==
    (TransactionsCompiled /\ (FilterAbsent \/ Includes("transaction"))) =>
        /\ is_some(transactions)
        /\ MapLen(unwrap(transactions)) = Len(transaction_filter)
        /\ DOMAIN unwrap(transactions) =
               { ExpectedTransactionLabels[i] : i \in 1..Len(transaction_filter) }
        /\ \A i \in 1..Len(transaction_filter) :
               LET e == unwrap(transactions)[ExpectedTransactionLabels[i]]
               IN  /\ e.vote = << FALSE >>
                   /\ e.failed = << FALSE >>
                   /\ e.signature = None
                   /\ e.account_include = transaction_filter[i].account_include
                   /\ e.account_exclude = transaction_filter[i].account_exclude
                   /\ e.account_required = transaction_filter[i].account_required
C6_Witness ==
    /\ TransactionsCompiled
    /\ FilterPresent
    /\ Includes("transaction")
    /\ Len(transaction_filter) >= 2
    /\ transaction_filter[2].account_exclude = transaction_filter[2].account_include
    /\ MapLen(unwrap(transactions)) = Len(transaction_filter)

\* C9: the commitment of the built request is the caller-supplied level when
\* one is supplied and Processed when none is; it is never unset and is the
\* same whatever the filters are.
C9_Commitment ==
    Built =>
        /\ is_some(Req.commitment)
        /\ commitment = None => Req.commitment = << 0 >>
        /\ commitment = << "Processed" >> => Req.commitment = << 0 >>
        /\ commitment = << "Confirmed" >> => Req.commitment = << 1 >>
        /\ commitment = << "Finalized" >> => Req.commitment = << 2 >>
C9_Witness ==
    /\ Built
    /\ commitment = << "Finalized" >>
    /\ Req.commitment = << 2 >>
    /\ FilterPresent
    /\ ~Includes("block")

StopCalled == Len(stop_calls) > 0

\* C7: once stop() has been called on the session or any clone, the flag is
\* set for every handle; the read loop, on reaching its iteration boundary
\* with the flag set, moves to Stopped; no update received after the flag was
\* observed is delivered and at most one delivery completes after the flag
\* was set; a stopped loop stays stopped; a further stop() changes nothing.
C7_StopSemantics ==
    /\ [](StopCalled => \A h \in 1..Len(handle) : cells[handle[h]])
    /\ [](after_stop <= 1)
    /\ [](is_some(observed_at) =>
              /\ loop = "stopped"
              /\ received = unwrap(observed_at)
              /\ \A i \in 1..Len(delivered) : delivered[i] <= unwrap(observed_at))
    /\ [][(loop = "top" /\ Cancelled /\ loop' # loop) => loop' = "stopped"]_vars
    /\ [][loop = "stopped" =>
              (loop' = "stopped" /\ delivered' = delivered /\ received' = received)]_vars
    /\ [][(StopCalled /\ Len(stop_calls') > Len(stop_calls)) =>
              UNCHANGED << cells, handle, loop, received, inflight, delivered,
                           after_stop, observed_at, errors_reported, pc >>]_vars
C7_Witness ==
    /\ Len(stop_calls) >= 2
    /\ stop_calls[1] # stop_calls[2]
    /\ loop = "stopped"
    /\ is_some(observed_at)
    /\ after_stop = 1
    /\ Len(delivered) >= 2
    /\ errors_reported = 0

\* C8: subscribe_with_request compiles the request, then connects, then
\* sends; a call makes one connection attempt and opens at most one channel,
\* never one an earlier call opened; a failed connect is returned with no
\* request sent and no stream; a failed send is returned as well; a failed
\* call has made one connection attempt and sent at most one request.
C8_SetupOrderAndErrors ==
    /\ pc \in {"connect", "send", "subscribed", "failed"} => Built
    /\ pc = "connect" => (connects = 0 /\ channel = 0 /\ sent = 0)
    /\ pc = "send" => (connects = 1 /\ channel # 0 /\ sent = 0)
    /\ pc = "subscribed" => (connects = 1 /\ channel # 0 /\ sent = 1 /\ result = "ok")
    /\ pc = "failed" => result \in {"connect_error", "send_error"}
    /\ result = "connect_error" =>
           (pc = "failed" /\ connects = 1 /\ channel = 0 /\ sent = 0 /\ loop = "none")
    /\ result = "send_error" =>
           (pc = "failed" /\ connects = 1 /\ channel # 0 /\ sent = 1 /\ loop = "none")
    /\ connects <= 1
    /\ sent <= 1
    /\ channel \notin used
    /\ opened <= calls
    /\ loop # "none" => result = "ok"
C8_Witness ==
    /\ calls > 1
    /\ result = "connect_error"
    /\ used # {}
    /\ sent = 0
    /\ Built
============================================================================
